---- MODULE Spec2Model ----
(***************************************************************************)
(* Paginated flow layout of the quote / review PDF renderers.              *)
(*                                                                         *)
(*   generate_pdf        src/generate_quote.py   ("quote" renderer)        *)
(*   _build_review_pdf   src/app.py              ("review" renderer)       *)
(*   wrap_text           src/generate_quote.py   (greedy wrap, long-word   *)
(*                                                splitting)               *)
(*   _wrap_text          src/app.py              (greedy wrap, no split)   *)
(*   generate_pdf        src/pdf-extractor/generate_quote.py               *)
(*                                               ("legacy" renderer: one   *)
(*                                                page, no ensure_space)   *)
(*   _ensure_fonts       src/app.py              (font registration under  *)
(*                                                concurrent render calls) *)
(*   _inject_doc_type_line  src/app.py           (statutory-fee row)       *)
(*                                                                         *)
(* Amounts and quantities of line items are in thousandths, the amounts    *)
(* the renderers print are in pence.                                       *)
(*                                                                         *)
(* Lengths are in half millimetres: every vertical length of the two       *)
(* renderers is a multiple of 0.5 mm (A4 is 297 mm high, the smallest step *)
(* is the 4.5 mm text line), so the layout arithmetic is exact integer     *)
(* arithmetic here.  Text is a sequence of one-character strings and the   *)
(* measured width of a string is the sum of its glyph widths.              *)
(***************************************************************************)
EXTENDS Integers, Sequences, FiniteSets, TLC

VARIABLES
    prog,        \* the program run: "quote", "review", "legacy", "wrap",
                 \* "row", "fonts" or "inject"
    pc,          \* position of the render call in its code
    y,           \* the cursor (nonlocal y), distance from the page bottom
    pages,       \* physical pages so far (1 + number of c.showPage())
    need,        \* required height of the most recent ensure_space call
    broke,       \* whether the most recent ensure_space started a new page
    block,       \* the block drawn last: kind, page, top edge, height
    log,         \* canvas operations of the most recent ensure_space
    footers,     \* footers[p]: footers drawn on page p
    borders,     \* borders[p]: top accent bars drawn on page p
    hdrPages,    \* pages on which a table header was drawn
    rowPages,    \* pages on which a line-item row was drawn
    data,        \* the content model fields read so far
    idx,         \* loop index of the line-item loop / field loop
    sect,        \* index of the section being drawn (review)
    row_index,   \* row parity counter of the key/value rows (review)
    note_idx,    \* next wrapped notes line to draw (quote)
    noteIters,   \* iterations of the notes loop started so far (quote)
    drawn,       \* kinds of table, section and notes blocks drawn so far
    wtext,       \* wrap: the text argument
    wwidth,      \* wrap: the max_width argument
    wlines,      \* wrap: the returned list of lines
    wfn,         \* wrap: which wrap function was called
    item,        \* row code: the line item dict handed to it
    cells,       \* row code: what the row being drawn shows and adds
    grand_total, \* the running total of the table, in thousandths
    shown_sum,   \* sum of the prices the rows drawn display, in pence
    drawn_sum,   \* sum of the coerced prices of the rows drawn, thousandths
    noteLog,     \* indices of the wrapped notes lines drawn, in order
    fonts_registered, \* app.py: the module flag _fonts_registered
    FONT,        \* app.py: FONT_R, FONT_SB, FONT_B, FONT_XB, in this order
    registered,  \* faces registered with pdfmetrics so far
    font_files,  \* indices of the faces whose TTF file exists and loads
    caller,      \* the concurrent render calls: position, all_ok, index
    lineItems,   \* _inject_doc_type_line: the list line_items, changed in place
    docType,     \* _inject_doc_type_line: the document_type argument
    history      \* line_items before the first call and after every call

vars == <<prog, pc, y, pages, need, broke, block, log, footers, borders,
          hdrPages, rowPages, data, idx, sect, row_index, note_idx,
          noteIters, drawn, wtext, wwidth, wlines, wfn, item, cells,
          grand_total, shown_sum, drawn_sum, noteLog, fonts_registered,
          FONT, registered, font_files, caller, lineItems, docType,
          history>>

renderVars == <<pc, y, pages, need, broke, block, log, footers, borders,
                hdrPages, rowPages, data, idx, sect, row_index, note_idx,
                noteIters, drawn>>

wrapVars == <<wtext, wwidth, wlines, wfn>>

tableVars == <<cells, grand_total, shown_sum, drawn_sum>>

rowVars == <<item, cells, grand_total, shown_sum, drawn_sum>>

fontVars == <<fonts_registered, FONT, registered, font_files, caller>>

injectVars == <<lineItems, docType, history>>

----------------------------------------------------------------------------
(* Bounds of the model.                                                    *)

MaxLen == 5          \* longest text handed to a wrap function
MaxListed == 2       \* most line items handed to _inject_doc_type_line
MaxCalls == 2        \* most successive calls of _inject_doc_type_line
MaxWidth == 4        \* largest max_width handed to a wrap function

----------------------------------------------------------------------------
(* Text measurer and the two text wrappers.                                *)

None == <<"None">>                  \* Python's None as a text argument
Whitespace == {" "}
Alphabet == {"a", "W", " "}

\* c.stringWidth of one glyph: a narrow letter, a wide letter, the space.
CharWidth(ch) == IF ch = "W" THEN 2 ELSE 1

RECURSIVE stringWidth(_)
stringWidth(s) ==
    IF s = <<>> THEN 0 ELSE CharWidth(Head(s)) + stringWidth(Tail(s))

\* s[:n] and s[n:]
Prefix(s, n) == SubSeq(s, 1, n)
Suffix(s, n) == SubSeq(s, n + 1, Len(s))

\* str.strip(): drop leading and trailing whitespace.
RECURSIVE LStrip(_)
LStrip(s) ==
    IF s # <<>> /\ Head(s) \in Whitespace THEN LStrip(Tail(s)) ELSE s

RECURSIVE RStrip(_)
RStrip(s) ==
    IF s # <<>> /\ s[Len(s)] \in Whitespace
    THEN RStrip(Prefix(s, Len(s) - 1)) ELSE s

Strip(s) == RStrip(LStrip(s))

\* str.split(): the maximal runs of non-whitespace characters, in order.
RECURSIVE SplitFrom(_, _, _)
SplitFrom(s, cur, acc) ==
    IF s = <<>>
    THEN IF cur = <<>> THEN acc ELSE Append(acc, cur)
    ELSE IF Head(s) \in Whitespace
         THEN SplitFrom(Tail(s), <<>>,
                        IF cur = <<>> THEN acc ELSE Append(acc, cur))
         ELSE SplitFrom(Tail(s), Append(cur, Head(s)), acc)

Split(s) == SplitFrom(s, <<>>, <<>>)

\* (text or "")
OrEmpty(text) == IF text = None THEN <<>> ELSE text

\* inner loop of split_long_token: the largest cut >= 1 whose prefix fits
RECURSIVE FindCut(_, _, _)
FindCut(remaining, cut, max_width) ==
    IF cut > 1 /\ stringWidth(Prefix(remaining, cut)) > max_width
    THEN FindCut(remaining, cut - 1, max_width)
    ELSE cut

RECURSIVE SplitLoop(_, _, _)
SplitLoop(remaining, chunks, max_width) ==
    IF remaining # <<>> /\ stringWidth(remaining) > max_width
    THEN LET cut == FindCut(remaining, Len(remaining), max_width)
         IN  SplitLoop(Suffix(remaining, cut),
                       Append(chunks, Prefix(remaining, cut)), max_width)
    ELSE IF remaining # <<>> THEN Append(chunks, remaining) ELSE chunks

split_long_token(token, max_width) ==
    LET chunks == SplitLoop(token, <<>>, max_width)
    IN  IF chunks = <<>> THEN << <<>> >> ELSE chunks

\* Place with the overflowing line forgotten instead of appended to lines
Place_dropsLine(st, piece, max_width) ==
    LET candidate == Strip(st.line \o <<" ">> \o piece)
    IN  IF stringWidth(candidate) <= max_width
        THEN [lines |-> st.lines, line |-> candidate]
        ELSE [lines |-> st.lines, line |-> piece]

\* One step of the greedy loop: st = [lines, line], piece is the next word.
Place(st, piece, max_width) ==
    LET candidate == Strip(st.line \o <<" ">> \o piece)
    IN  IF stringWidth(candidate) <= max_width
        THEN [lines |-> st.lines, line |-> candidate]
        ELSE [lines |-> IF st.line # <<>> THEN Append(st.lines, st.line)
                        ELSE st.lines,
              line  |-> piece]

RECURSIVE PlaceAll(_, _, _)
PlaceAll(st, pieces, max_width) ==
    IF pieces = <<>> THEN st
    ELSE PlaceAll(Place(st, Head(pieces), max_width), Tail(pieces), max_width)

\* `return lines` without the `or [""]`
OrOneEmpty_missing(lines) == lines

\* lines or [""]
OrOneEmpty(lines) == IF lines = <<>> THEN << <<>> >> ELSE lines

\* the tail of both wrappers: flush the current line, never return []
Finish(st) ==
    OrOneEmpty(IF st.line # <<>> THEN Append(st.lines, st.line) ELSE st.lines)

RECURSIVE WrapWords(_, _, _)
WrapWords(st, words, max_width) ==
    IF words = <<>> THEN st
    ELSE WrapWords(PlaceAll(st, split_long_token(Head(words), max_width),
                            max_width),
                   Tail(words), max_width)

\* generate_quote.py wrap_text
wrap_text(text, max_width) ==
    Finish(WrapWords([lines |-> <<>>, line |-> <<>>],
                     Split(OrEmpty(text)), max_width))

\* app.py _wrap_text (also pdf-extractor/generate_quote.py wrap_text)
app_wrap_text(text, max_width) ==
    Finish(PlaceAll([lines |-> <<>>, line |-> <<>>],
                    Split(OrEmpty(text)), max_width))

----------------------------------------------------------------------------
(* Page geometry and block heights, in half millimetres.                   *)

MaxItems == 20       \* most line items of a content model
MaxAddr == 7         \* most non-empty bill-to address lines supplied
MaxValueLines == 2   \* most wrapped lines of an ordinary field value
MaxNoteLines == 45   \* most wrapped notes lines (quote renderer)
LongSpecial == 57    \* wrapped lines of a long special-instructions text
MaxExtra == 1        \* extra lines the narrower value column may add

mm == 2
PAGE_H == 297 * mm
MARGIN == IF prog = "review" THEN 14 * mm ELSE 18 * mm
RESERVE == 5 * mm            \* app.py ensure_space keeps 5 mm spare
TEXT_LINE == 9               \* 4.5 * mm, one address or notes line
logo_h == 16 * mm
prep_h == 17 * mm
box_h == 13 * mm
hdr_h == 9 * mm              \* hdr_h, ps_hdr_h
row_h == 8 * mm              \* row_h, ps_row_h_single, key/value row_h
ps_row_h_double == 14 * mm
sub_h == 10 * mm
tot_h == 14 * mm
tot_row_h == 10 * mm
section_hdr_h == 7 * mm
NOTES_MIN == 22 * mm
NOTES_MAX == 45 * mm
WE_ADDRESS_LINES == 3        \* len(WE_ADDRESS)
SectionSizes == <<3, 6, 3, 4>>   \* fields per section of `sections`
NoteTypes == {"Consignment Note", "Waste Transfer Note"}
DocTypes == {"None", " Consignment Note ", "Waste Transfer Note", "Quote"}

Min(a, b) == IF a < b THEN a ELSE b
Max(a, b) == IF a > b THEN a ELSE b

\* the space test of ensure_space, generate_quote.py
quote_fits(yy, required_height) == (yy - MARGIN) >= required_height

\* the space test of app.py keeping the reserve twice
review_fits_twoReserves(yy, needed) == (yy - MARGIN - 2 * RESERVE) >= needed

\* the space test of app.py with > for >=
review_fits_strict(yy, needed) == (yy - MARGIN - RESERVE) > needed

\* the space test of ensure_space, app.py
review_fits(yy, needed) == (yy - MARGIN - RESERVE) >= needed

Fits(yy, h) == IF prog = "review" THEN review_fits(yy, h) ELSE quote_fits(yy, h)

\* y = PAGE_H - MARGIN: the cursor at the top of a page
TopOfPage == PAGE_H - MARGIN

\* the page break with draw_top_border() placed before c.showPage(): the
\* accent bar lands on the page being left
BreakOps_borderFirst(p, redraw) ==
    << [op |-> "draw_footer", page |-> p],
       [op |-> "draw_top_border", page |-> p],
       [op |-> "showPage", page |-> p],
       [op |-> "reset_y", page |-> p + 1] >>
    \o (IF redraw THEN << [op |-> "redraw", page |-> p + 1] >> ELSE <<>>)

\* the canvas operations of a page break, in the order ensure_space issues
\* them; each is tagged with the physical page it lands on
BreakOps(p, redraw) ==
    << [op |-> "draw_footer", page |-> p],
       [op |-> "showPage", page |-> p],
       [op |-> "reset_y", page |-> p + 1],
       [op |-> "draw_top_border", page |-> p + 1] >>
    \o (IF redraw THEN << [op |-> "redraw", page |-> p + 1] >> ELSE <<>>)

\* the cursor ensure_space leaves after a page break: the top of the new
\* page, less the table header when the redraw callback drew one
AfterBreakY(redraw) == TopOfPage - (IF redraw THEN hdr_h ELSE 0)

\* ensure_space(required_height, redraw): both renderers; the review
\* renderer's ensure_space has no redraw parameter (always called FALSE)
ensure_space(h, redraw) ==
    /\ need' = h
    /\ IF Fits(y, h)
       THEN /\ broke' = FALSE
            /\ log' = <<>>
            /\ UNCHANGED <<y, pages, footers, borders, hdrPages, block>>
       ELSE /\ broke' = TRUE
            /\ block' = IF redraw
                        THEN [kind |-> "hdr", page |-> pages + 1,
                              top |-> TopOfPage, h |-> hdr_h, text |-> 0,
                              fill |-> "none"]
                        ELSE block
            /\ log' = BreakOps(pages, redraw)
            /\ footers' = Append([footers EXCEPT ![pages] = @ + 1], 0)
            /\ pages' = pages + 1
            /\ borders' = Append(borders, 1)
            /\ y' = AfterBreakY(redraw)
            /\ hdrPages' = IF redraw THEN hdrPages \cup {pages + 1}
                           ELSE hdrPages

\* the kinds `drawn` records: the blocks of the table, of the sections and
\* of the notes; the blocks above the table are laid out by every render
RecordedKinds == {"hdr", "row", "total", "band", "field", "notes", "no_notes"}

\* row_fill = LIGHT_ROW if row_index % 2 == 0 else WHITE (idx for the rows of
\* the line-item tables)
RowFill(index) == IF index % 2 = 0 THEN "LIGHT_ROW" ELSE "WHITE"

\* a block of height h drawn with its top edge at the cursor, after which
\* the cursor moves down by adv; text is the amount a total band shows, in
\* pence, fill the background of a table row
DrawBlockFill(kind, h, adv, text, fill) ==
    /\ block' = [kind |-> kind, page |-> pages, top |-> y, h |-> h,
                 text |-> text, fill |-> fill]
    /\ drawn' = drawn \cup ({kind} \cap RecordedKinds)
    /\ y' = y - adv

\* a block that is not a shaded row
DrawBlockText(kind, h, adv, text) == DrawBlockFill(kind, h, adv, text, "none")

\* a block that shows no amount
DrawBlock(kind, h, adv) == DrawBlockText(kind, h, adv, 0)

\* the bill-to column without the [:6] on the address lines
BottomLeft_untruncated(addr_top, addr, email) ==
    addr_top - TEXT_LINE - 5 * mm - TEXT_LINE * addr
             - (IF email THEN TEXT_LINE ELSE 0)

\* bottom of the bill-to column: label, name, at most six address lines,
\* the e-mail line (quote renderer only)
BottomLeft(addr_top, addr, email) ==
    addr_top - TEXT_LINE - 5 * mm - TEXT_LINE * Min(addr, 6)
             - (IF email THEN TEXT_LINE ELSE 0)

\* bottom of the from column: label, name, WE_ADDRESS
BottomRight(addr_top) ==
    addr_top - TEXT_LINE - 5 * mm - TEXT_LINE * WE_ADDRESS_LINES

\* y = max(bottom_left, bottom_right): the cursor resumes under the shorter
\* column
AfterColumns_max(addr_top, addr, email) ==
    Max(BottomLeft(addr_top, addr, email), BottomRight(addr_top))

\* y = min(bottom_left, bottom_right)
AfterColumns(addr_top, addr, email) ==
    Min(BottomLeft(addr_top, addr, email), BottomRight(addr_top))

\* what the logo sources give a render: no reader (no local file that
\* loads and the remote fetch fails), a reader whose size cannot be read, a
\* reader that c.drawImage rejects, or a reader that draws
LogoOutcomes == {"no_reader", "no_size", "draw_fails", "ok"}

\* generate_quote.py lines 716-763: what ends up in the logo slot.
\* draw_brand_logo(draw=False) returns None without a reader or a size and
\* the "LOGO" text is drawn; when the drawing call itself fails the
\* exception is swallowed and the slot stays empty ("nologo")
quote_logo(logo) ==
    IF logo \in {"no_reader", "no_size"} THEN "placeholder"
    ELSE IF logo = "draw_fails" THEN "nologo"
    ELSE "logo"

\* app.py lines 585-601: the image when there is a reader and nothing
\* fails; otherwise nothing is drawn, there is no else branch
review_logo(logo) == IF logo = "ok" THEN "logo" ELSE "nologo"

\* comm_h with max and min exchanged: the box never grows beyond 22 mm
NotesBoxHeight_swapped(yy) ==
    Min(NOTES_MIN, Max(yy - MARGIN - RESERVE, NOTES_MAX))

\* comm_h without the cap: max(22 * mm, remaining)
NotesBoxHeight_uncapped(yy) == Max(NOTES_MIN, yy - MARGIN - RESERVE)

\* comm_h = max(22 * mm, min(remaining, 45 * mm)), remaining = y - MARGIN - 5 mm
NotesBoxHeight(yy) == Max(NOTES_MIN, Min(yy - MARGIN - RESERVE, NOTES_MAX))

\* the inner loop asking for room for the next line as well: a box of the
\* minimum height then holds no line at all
RECURSIVE DrawNoteLines_roomForTwo(_, _, _, _)
DrawNoteLines_roomForTwo(i, note_y, box_bottom, n) ==
    IF i < n /\ note_y - 2 * TEXT_LINE >= box_bottom
    THEN DrawNoteLines_roomForTwo(i + 1, note_y - TEXT_LINE, box_bottom, n)
    ELSE i

\* the inner while loop of the notes block: the next-line index after
\* drawing lines from note_y downwards while they stay above box_bottom
RECURSIVE DrawNoteLines(_, _, _, _)
DrawNoteLines(i, note_y, box_bottom, n) ==
    IF i < n /\ note_y >= box_bottom
    THEN DrawNoteLines(i + 1, note_y - TEXT_LINE, box_bottom, n)
    ELSE i

\* the indices of note_lines[i:j], counted from 1
LinesFrom(i, j) == [k \in 1..(j - i) |-> i + k]

\* a field value as the code sees it: one entry for each part of
\* value_str.split("\n"), the number of lines _wrap_text returns for that
\* part (at least one: _wrap_text gives [""] for a blank part)
ValueParts == {<<1>>, <<2>>, <<1, 1>>}

\* len(value_lines) after the loop that extends value_lines with the
\* wrapped lines of every part
RECURSIVE LenValueLines(_)
LenValueLines(parts) ==
    IF parts = <<>> THEN 0
    ELSE Head(parts) + LenValueLines(Tail(parts))

\* this_row_h without the 4 mm of padding
ThisRowH_noPadding(value_lines) == Max(row_h, value_lines * 4 * mm)

\* this_row_h = max(row_h, len(value_lines) * 4 * mm + 4 * mm)
ThisRowH(value_lines) == Max(row_h, value_lines * 4 * mm + 4 * mm)

\* comm_content_h = max(18 * mm, len(note_lines) * 4.5 * mm + 14 * mm)
CommContentH(note_lines) == Max(18 * mm, note_lines * TEXT_LINE + 14 * mm)

\* doc_type = (document_type or "").strip()
StripDocType(document_type) ==
    IF document_type = "None" THEN ""
    ELSE IF document_type = " Consignment Note " THEN "Consignment Note"
    ELSE document_type

\* the descriptions of the items handed to _inject_doc_type_line: None, an
\* ordinary description, the note names in other spellings, and a longer
\* description that contains a note name
Descriptions == {"None", "Skip hire", " CONSIGNMENT NOTE ",
                 "waste transfer note", "Consignment Note charge"}

\* the description compared without .lower(): only stripped
NormalDescription_noLower(description) ==
    IF description = "None" THEN ""
    ELSE IF description = " CONSIGNMENT NOTE " THEN "CONSIGNMENT NOTE"
    ELSE description

\* (it.get("description") or "").strip().lower()
NormalDescription(description) ==
    IF description = "None" THEN ""
    ELSE IF description = "Skip hire" THEN "skip hire"
    ELSE IF description \in {" CONSIGNMENT NOTE ", "Consignment Note"}
         THEN "consignment note"
    ELSE IF description \in {"waste transfer note", "Waste Transfer Note"}
         THEN "waste transfer note"
    ELSE IF description = "Consignment Note charge"
         THEN "consignment note charge"
    ELSE description

\* note_names
note_names == {"consignment note", "waste transfer note"}

\* already_listed = any(... in note_names for it in line_items)
AlreadyListed(listed) ==
    \E k \in 1..Len(listed) :
       NormalDescription(listed[k].description) \in note_names

\* _inject_doc_type_line without its test of the document type
Injects_anyType(document_type, already_listed) == ~already_listed

\* _inject_doc_type_line: does it append the fee row?  already_listed says
\* whether an item of the payload already carries a note description
Injects(document_type, already_listed) ==
    StripDocType(document_type) \in NoteTypes /\ ~already_listed

\* the item _inject_doc_type_line appends: the stripped document type as
\* its description, price 40.00, _is_doc_type_line
NoteItem(doc_type) == [description |-> doc_type, fee |-> TRUE]

\* _inject_doc_type_line(line_items, document_type): the list it leaves
\* (and returns)
inject_doc_type_line(listed, document_type) ==
    IF Injects(document_type, AlreadyListed(listed))
    THEN Append(listed, NoteItem(StripDocType(document_type)))
    ELSE listed

----------------------------------------------------------------------------
(* Line items and the numeric coercions of the table rows.  A field of a   *)
(* line item is a tagged value; amounts and quantities are in thousandths  *)
(* (1000 is 1, 1004 is 1.004), money as displayed is in pence.             *)

Val(t, v) == [t |-> t, v |-> v]

Missing == Val("missing", 0)     \* the key is absent from the dict
NoneVal == Val("None", 0)        \* JSON null
EmptyStr == Val("empty", 0)      \* ""
BadStr == Val("text", 0)         \* a non-numeric string such as "abc"
Num(v) == Val("num", v)          \* an int or float, v thousandths
NumStr(v) == Val("numstr", v)    \* its shortest decimal literal as a string

\* numbers a field may hold: -1, 0, 0.5, 2, 2.5
Numbers == {-1000, 0, 500, 2000, 2500}

\* numeric strings a field may hold: "0", "2", "2.5"
NumberStrings == {0, 2000, 2500}

Vals == {Missing, NoneVal, EmptyStr, BadStr}
        \cup {Num(v) : v \in Numbers} \cup {NumStr(v) : v \in NumberStrings}

\* a line item of the payload
Items == [price : Vals, line_total : Vals, unit_price : Vals,
          quantity : Vals, fee : {FALSE}]

\* the row _inject_doc_type_line appends: price 40.00, no quantity key
FeeItem == [price |-> Num(40000), line_total |-> Missing,
            unit_price |-> Missing, quantity |-> Missing, fee |-> TRUE]

\* line items of a rendered table: one without numeric fields, one whose
\* price fields are unparsable, one priced 1.004
NoNumbers == [price |-> Missing, line_total |-> Missing,
              unit_price |-> Missing, quantity |-> Missing, fee |-> FALSE]

RowItems == {NoNumbers,
             [NoNumbers EXCEPT !.price = BadStr, !.line_total = BadStr,
                               !.unit_price = BadStr],
             [NoNumbers EXCEPT !.price = Num(1004), !.line_total = Num(1004)]}

\* dict.get(key): None when the key is absent
Get(v) == IF v = Missing THEN NoneVal ELSE v

\* dict.get(key, default)
GetDefault(v, default) == IF v = Missing THEN default ELSE v

\* Python truth value
Truthy(v) == v.t \in {"text", "numstr"} \/ (v.t = "num" /\ v.v # 0)

\* a or b
Or(a, b) == IF Truthy(a) THEN a ELSE b

\* float(v) returns (TypeError on None, ValueError on "" and "abc")
FloatOk(v) == v.t \in {"num", "numstr"}

FloatOf(v) == v.v

\* toward zero, to a whole number of thousands
Trunc(v) == IF v >= 0 THEN (v \div 1000) * 1000 ELSE -(((-v) \div 1000) * 1000)

\* int(v) returns: a number is truncated, a string must be an integer
\* literal ("2.5" is a ValueError)
IntOk(v) == v.t = "num" \/ (v.t = "numstr" /\ v.v % 1000 = 0)

IntOf(v) == Trunc(v.v)

\* a * b of two amounts in thousandths
Times(a, b) == (a * b) \div 1000

\* money(val), _money(val): f"{float(val):,.2f}", the amount in pence,
\* rounded to the nearest penny (a tie goes to the even penny)
Money(v) ==
    LET q == v \div 10
        r == v % 10
    IN  IF r < 5 THEN q
        ELSE IF r > 5 THEN q + 1
        ELSE IF q % 2 = 0 THEN q ELSE q + 1

\* what a row shows and adds: qty is the quantity text (shown only when
\* qty_drawn), unit and price the money texts (pence), added the amount
\* added to grand_total
NoCells == [raised |-> FALSE, qty |-> 0, qty_drawn |-> FALSE, unit |-> 0,
          price |-> 0, added |-> 0]

Raised == [NoCells EXCEPT !.raised = TRUE]

\* app.py lines 755-759: quantity_val = int(item.get("quantity", 1)),
\* 1 on TypeError or ValueError
review_quantity(it) ==
    LET quantity_val == GetDefault(it.quantity, Num(1000))
    IN  IF IntOk(quantity_val) THEN IntOf(quantity_val) ELSE 1000

\* app.py lines 762-765: price = float(price or line_total or unit_price
\* or 0), 0.0 on TypeError or ValueError
review_price(it) ==
    LET chosen == Or(Or(Or(Get(it.price), Get(it.line_total)),
                        Get(it.unit_price)), Num(0))
    IN  IF FloatOk(chosen) THEN FloatOf(chosen) ELSE 0

\* app.py lines 754-838: what one table row of the review shows and adds
review_row(it) ==
    [raised |-> FALSE,
     qty |-> review_quantity(it),
     qty_drawn |-> ~it.fee,
     unit |-> 0,
     price |-> Money(review_price(it)),
     added |-> review_price(it)]

\* generate_quote.py lines 898-902: qty_f
quote_qty(it) ==
    LET qty == GetDefault(it.quantity, Num(1000))
    IN  IF FloatOk(qty) THEN FloatOf(qty) ELSE 1000

\* generate_quote.py lines 904-907: unit
quote_unit(it) ==
    LET chosen == Or(Get(it.unit_price), Num(0))
    IN  IF FloatOk(chosen) THEN FloatOf(chosen) ELSE 0

\* generate_quote.py lines 909-912: total
quote_total(it) ==
    LET product == Times(quote_qty(it), quote_unit(it))
        chosen == Or(Get(it.line_total), Num(product))
    IN  IF FloatOk(chosen) THEN FloatOf(chosen) ELSE product

\* generate_quote.py lines 897-944: what one table row of the quote shows
\* and adds
quote_row(it) ==
    [raised |-> FALSE,
     qty |-> quote_qty(it),
     qty_drawn |-> TRUE,
     unit |-> Money(quote_unit(it)),
     price |-> Money(quote_total(it)),
     added |-> quote_total(it)]

\* pdf-extractor/generate_quote.py lines 447-450: the same fields without
\* any try: float() of an unparsable value leaves generate_pdf
legacy_raises(it) ==
    LET qty == GetDefault(it.quantity, Num(1000))
        unit_arg == Or(Get(it.unit_price), Num(0))
    IN  \/ ~FloatOk(unit_arg)
        \/ IF Truthy(Get(it.line_total)) THEN ~FloatOk(it.line_total)
           ELSE ~FloatOk(qty)

\* pdf-extractor/generate_quote.py lines 445-476: what one table row shows
\* and adds; the quantity is shown as given, str(qty)
legacy_row(it) ==
    IF legacy_raises(it) THEN Raised
    ELSE LET qty == GetDefault(it.quantity, Num(1000))
             unit == FloatOf(Or(Get(it.unit_price), Num(0)))
             total == IF Truthy(Get(it.line_total)) THEN FloatOf(it.line_total)
                      ELSE Times(FloatOf(qty), unit)
         IN  [raised |-> FALSE, qty |-> FloatOf(qty), qty_drawn |-> TRUE,
              unit |-> Money(unit), price |-> Money(total), added |-> total]

\* grand_total keeping only the last row's amount
Accumulate_overwrite(total, amount) == amount

\* grand_total += amount
Accumulate(total, amount) == total + amount

----------------------------------------------------------------------------
(* State after construction of a render call.                              *)

NoBlock == [kind |-> "none", page |-> 1, top |-> 0, h |-> 0, text |-> 0,
            fill |-> "none"]

NoData == [docType |-> "None", noItems |-> TRUE, inject |-> FALSE,
           ended |-> FALSE, feeDone |-> FALSE, notes |-> 0, parts |-> <<>>]

\* the faces of specs in _ensure_fonts, the names FONT_* start with
Faces == <<"Montserrat", "Montserrat-SemiBold", "Montserrat-Bold",
           "Montserrat-ExtraBold">>

\* the built-in names FONT_* are switched to when a face is missing
Fallbacks == <<"Helvetica", "Helvetica", "Helvetica-Bold", "Helvetica-Bold">>

\* the render calls that run concurrently in one process
Callers == {1, 2}

\* a fresh process in which no render call is running
FontsIdle ==
    /\ fonts_registered = FALSE
    /\ FONT = Faces
    /\ registered = {}
    /\ font_files = 1..Len(Faces)
    /\ caller = [t \in Callers |-> [pc |-> "none", all_ok |-> TRUE, i |-> 0,
                                     resolved |-> TRUE]]

\* _inject_doc_type_line is not being called
InjectIdle ==
    /\ lineItems = <<>>
    /\ docType = "None"
    /\ history = <<>>

WrapIdle ==
    /\ wtext = <<>>
    /\ wwidth = 1
    /\ wlines = <<>>
    /\ wfn = "none"

\* no line item in hand, the totals at 0.0
RowIdle ==
    /\ item = NoNumbers
    /\ cells = NoCells
    /\ grand_total = 0
    /\ shown_sum = 0
    /\ drawn_sum = 0

RenderStart ==
    /\ pc = "start"
    /\ y = TopOfPage
    /\ pages = 1
    /\ need = 0
    /\ broke = FALSE
    /\ block = NoBlock
    /\ log = <<>>
    /\ footers = <<0>>
    /\ borders = <<0>>
    /\ hdrPages = {}
    /\ rowPages = {}
    /\ data = NoData
    /\ idx = 0
    /\ sect = 0
    /\ row_index = 0
    /\ note_idx = 0
    /\ noteIters = 0
    /\ drawn = {}
    /\ noteLog = <<>>
    /\ RowIdle
    /\ WrapIdle
    /\ FontsIdle
    /\ InjectIdle

LayoutIdle ==
    /\ y = 0
    /\ pages = 1
    /\ need = 0
    /\ broke = FALSE
    /\ block = NoBlock
    /\ log = <<>>
    /\ footers = <<0>>
    /\ borders = <<0>>
    /\ hdrPages = {}
    /\ rowPages = {}
    /\ data = NoData
    /\ idx = 0
    /\ sect = 0
    /\ row_index = 0
    /\ note_idx = 0
    /\ noteIters = 0
    /\ drawn = {}
    /\ noteLog = <<>>

RenderIdle == LayoutIdle /\ RowIdle

InitRender ==
    /\ prog \in {"quote", "review"}
    /\ RenderStart

\* the variables ensure_space leaves alone
EnsureFrame == UNCHANGED <<fontVars, injectVars,
                           prog, drawn, rowPages, idx, sect, row_index,
                           note_idx, wtext, wwidth, wlines, wfn, item,
                           shown_sum, drawn_sum, noteLog>>

\* the variables the drawing of a block leaves alone
DrawFrame == UNCHANGED <<fontVars, injectVars,
                         prog, need, broke, log, pages, footers, borders,
                         data, sect, noteIters, wtext, wwidth, wlines, wfn,
                         item>>

----------------------------------------------------------------------------
(* generate_pdf (src/generate_quote.py).                                   *)

\* lines 750-763: accent bar, the logo slot, down
Q_Logo ==
    /\ prog = "quote" /\ pc = "start"
    /\ borders' = [borders EXCEPT ![pages] = @ + 1]
    /\ \E logo \in LogoOutcomes :
          DrawBlock(quote_logo(logo), logo_h, logo_h + 8 * mm)
    /\ pc' = "title"
    /\ UNCHANGED <<fontVars, injectVars,
                   prog, need, broke, log, pages, footers, hdrPages, rowPages,
                   data, idx, sect, row_index, note_idx, noteIters,
                   wrapVars, rowVars, noteLog>>

\* lines 765-779: title, down(6 mm), green divider, down(7 mm)
Q_Title ==
    /\ prog = "quote" /\ pc = "title"
    /\ DrawBlock("heading", 0, 6 * mm + 7 * mm)
    /\ pc' = "addresses"
    /\ DrawFrame
    /\ UNCHANGED <<hdrPages, rowPages, idx, row_index, note_idx, tableVars,
                   noteLog>>

\* lines 781-828: the two address columns, y = min(...), down(6 mm)
Q_Addresses ==
    /\ prog = "quote" /\ pc = "addresses"
    /\ \E addr \in 0..MaxAddr, email \in BOOLEAN :
          DrawBlock("addresses", y - AfterColumns(y, addr, email),
                    (y - AfterColumns(y, addr, email)) + 6 * mm)
    /\ pc' = "prep"
    /\ DrawFrame
    /\ UNCHANGED <<hdrPages, rowPages, idx, row_index, note_idx, tableVars,
                   noteLog>>

\* line 832
Q_PreparedEnsure ==
    /\ prog = "quote" /\ pc = "prep"
    /\ ensure_space(prep_h + 6 * mm, FALSE)
    /\ pc' = "prep_draw"
    /\ EnsureFrame
    /\ UNCHANGED <<data, noteIters, cells, grand_total>>

\* lines 833-846
Q_PreparedDraw ==
    /\ prog = "quote" /\ pc = "prep_draw"
    /\ DrawBlock("prepared", prep_h, prep_h + 6 * mm)
    /\ pc' = "pills"
    /\ DrawFrame
    /\ UNCHANGED <<hdrPages, rowPages, idx, row_index, note_idx, tableVars,
                   noteLog>>

\* line 852
Q_PillsEnsure ==
    /\ prog = "quote" /\ pc = "pills"
    /\ ensure_space(box_h + 8 * mm, FALSE)
    /\ pc' = "pills_draw"
    /\ EnsureFrame
    /\ UNCHANGED <<data, noteIters, cells, grand_total>>

\* lines 853-866
Q_PillsDraw ==
    /\ prog = "quote" /\ pc = "pills_draw"
    /\ DrawBlock("pills", box_h, box_h + 8 * mm)
    /\ pc' = "table"
    /\ DrawFrame
    /\ UNCHANGED <<hdrPages, rowPages, idx, row_index, note_idx, tableVars,
                   noteLog>>

\* line 888: the table header is laid out whatever line_items holds
Q_TableHeaderEnsure ==
    /\ prog = "quote" /\ pc = "table"
    /\ ensure_space(hdr_h, FALSE)
    /\ pc' = "hdr_draw"
    /\ EnsureFrame
    /\ UNCHANGED <<data, noteIters, cells, grand_total>>

\* lines 874-886, 889: draw_table_header
Q_TableHeaderDraw ==
    /\ prog = "quote" /\ pc = "hdr_draw"
    /\ DrawBlock("hdr", hdr_h, hdr_h)
    /\ hdrPages' = hdrPages \cup {pages}
    /\ pc' = "rows"
    /\ DrawFrame
    /\ UNCHANGED <<rowPages, idx, row_index, note_idx, tableVars, noteLog>>

\* lines 894-895: the loop finds another line item
Q_RowEnsure ==
    /\ prog = "quote" /\ pc = "rows"
    /\ idx < MaxItems
    /\ ensure_space(row_h, TRUE)
    /\ data' = [data EXCEPT !.noItems = FALSE]
    /\ pc' = "row_draw"
    /\ EnsureFrame
    /\ UNCHANGED <<noteIters, cells, grand_total>>

\* lines 897-946: one row: the item's numbers are coerced, its total is
\* added to grand_total, the row is drawn
Q_RowDraw ==
    /\ prog = "quote" /\ pc = "row_draw"
    /\ \E it \in RowItems :
          /\ grand_total' = Accumulate(grand_total, quote_row(it).added)
          /\ shown_sum' = shown_sum + quote_row(it).price
          /\ drawn_sum' = drawn_sum + quote_row(it).added
    /\ DrawBlockFill("row", row_h, row_h, 0, RowFill(idx))
    /\ rowPages' = rowPages \cup {pages}
    /\ idx' = idx + 1
    /\ pc' = "rows"
    /\ DrawFrame
    /\ UNCHANGED <<hdrPages, row_index, note_idx, cells, noteLog>>

\* line 948: line_items is exhausted, down(6 mm)
Q_RowsEnd ==
    /\ prog = "quote" /\ pc = "rows"
    /\ y' = y - 6 * mm
    /\ data' = [data EXCEPT !.ended = TRUE]
    /\ pc' = "summary"
    /\ UNCHANGED <<fontVars, injectVars,
                   prog, need, broke, block, log, pages, footers, borders,
                   hdrPages, rowPages, idx, sect, row_index, note_idx,
                   noteIters, drawn, wrapVars, rowVars, noteLog>>

\* ensure_space of the summary called with redraw=draw_table_header
Q_SummaryEnsure_redraws ==
    /\ prog = "quote" /\ pc = "summary"
    /\ ensure_space(sub_h + 2 * mm + tot_h + 10 * mm, TRUE)
    /\ pc' = "summary_draw"
    /\ EnsureFrame
    /\ UNCHANGED <<data, noteIters, cells, grand_total>>

\* line 956
Q_SummaryEnsure ==
    /\ prog = "quote" /\ pc = "summary"
    /\ ensure_space(sub_h + 2 * mm + tot_h + 10 * mm, FALSE)
    /\ pc' = "summary_draw"
    /\ EnsureFrame
    /\ UNCHANGED <<data, noteIters, cells, grand_total>>

\* lines 958-975: subtotal band, down, total band, down; both bands show
\* money(grand_total).  The totals are not read again: they are dropped.
Q_SummaryDraw ==
    /\ prog = "quote" /\ pc = "summary_draw"
    /\ DrawBlockText("total", sub_h + 2 * mm + tot_h,
                     sub_h + 2 * mm + tot_h + 10 * mm, Money(grand_total))
    /\ grand_total' = 0
    /\ shown_sum' = 0
    /\ drawn_sum' = 0
    /\ pc' = "notes"
    /\ DrawFrame
    /\ UNCHANGED <<hdrPages, rowPages, idx, row_index, note_idx, cells,
                   noteLog>>

\* lines 978-980: the notes are wrapped once; an empty text gives []
Q_NotesWrap ==
    /\ prog = "quote" /\ pc = "notes"
    /\ \E n \in 0..MaxNoteLines : data' = [data EXCEPT !.notes = n]
    /\ note_idx' = 0
    /\ pc' = "notes_loop"
    /\ UNCHANGED <<fontVars, injectVars,
                   prog, y, pages, need, broke, block, log, footers, borders,
                   hdrPages, rowPages, idx, sect, row_index, noteIters,
                   drawn, wrapVars, rowVars, noteLog>>

\* line 983: every iteration of the loop starts with ensure_space(22 mm)
Q_NotesEnsure ==
    /\ prog = "quote" /\ pc = "notes_loop"
    /\ ensure_space(NOTES_MIN, FALSE)
    /\ noteIters' = noteIters + 1
    /\ pc' = "notes_box"
    /\ EnsureFrame
    /\ UNCHANGED <<data, cells, grand_total>>

\* lines 984-1009: the box, its lines, down(comm_h), exit or down(6 mm)
Q_NotesBox ==
    /\ prog = "quote" /\ pc = "notes_box"
    /\ LET comm_h == NotesBoxHeight(y)
           next   == DrawNoteLines(note_idx, y - 11 * mm,
                                   y - comm_h + 4 * mm, data.notes)
           last   == data.notes = 0 \/ next >= data.notes
       IN  /\ DrawBlock(IF data.notes = 0 THEN "no_notes" ELSE "notes", comm_h,
                        comm_h + (IF last THEN 0 ELSE 6 * mm))
           /\ note_idx' = IF data.notes = 0 THEN note_idx ELSE next
           /\ noteLog' = IF data.notes = 0 THEN noteLog
                          ELSE noteLog \o LinesFrom(note_idx, next)
           /\ pc' = IF last THEN "footer" ELSE "notes_loop"
    /\ DrawFrame
    /\ UNCHANGED <<hdrPages, rowPages, idx, row_index, tableVars>>

\* lines 1011-1014: the last page's footer, c.save()
Q_Finish ==
    /\ prog = "quote" /\ pc = "footer"
    /\ footers' = [footers EXCEPT ![pages] = @ + 1]
    /\ pc' = "done"
    /\ UNCHANGED <<fontVars, injectVars,
                   prog, y, pages, need, broke, block, log, borders, hdrPages,
                   rowPages, data, idx, sect, row_index, note_idx, noteIters,
                   drawn, wrapVars, rowVars, noteLog>>

QuoteNext ==
    \/ Q_Logo \/ Q_Title \/ Q_Addresses
    \/ Q_PreparedEnsure \/ Q_PreparedDraw
    \/ Q_PillsEnsure \/ Q_PillsDraw
    \/ Q_TableHeaderEnsure \/ Q_TableHeaderDraw
    \/ Q_RowEnsure \/ Q_RowDraw \/ Q_RowsEnd
    \/ Q_SummaryEnsure \/ Q_SummaryDraw
    \/ Q_NotesWrap \/ Q_NotesEnsure \/ Q_NotesBox
    \/ Q_Finish

----------------------------------------------------------------------------
(* _build_review_pdf (src/app.py).                                         *)

\* the logo block with down(logo_h) inside `if logo_reader:`, so that a
\* render without a logo starts 16 mm higher
R_Logo_noSlotWithoutLogo ==
    /\ prog = "review" /\ pc = "start"
    /\ borders' = [borders EXCEPT ![pages] = @ + 1]
    /\ \E logo \in LogoOutcomes :
          DrawBlock(review_logo(logo), logo_h,
                    (IF logo = "no_reader" THEN 0 ELSE logo_h) + 6 * mm)
    /\ pc' = "title"
    /\ UNCHANGED <<fontVars, injectVars,
                   prog, need, broke, log, pages, footers, hdrPages, rowPages,
                   data, idx, sect, row_index, note_idx, noteIters,
                   wrapVars, rowVars, noteLog>>

\* lines 583-602: accent bar, the logo slot, down
R_Logo ==
    /\ prog = "review" /\ pc = "start"
    /\ borders' = [borders EXCEPT ![pages] = @ + 1]
    /\ \E logo \in LogoOutcomes :
          DrawBlock(review_logo(logo), logo_h, logo_h + 6 * mm)
    /\ pc' = "title"
    /\ UNCHANGED <<fontVars, injectVars,
                   prog, need, broke, log, pages, footers, hdrPages, rowPages,
                   data, idx, sect, row_index, note_idx, noteIters,
                   wrapVars, rowVars, noteLog>>

\* lines 604-620: the title and down(6 mm) only when service_description is
\* not blank, then the green rule and down(7 mm)
R_Title ==
    /\ prog = "review" /\ pc = "title"
    /\ \E service_desc \in BOOLEAN :
          DrawBlock("heading", 0,
                    (IF service_desc THEN 6 * mm ELSE 0) + 7 * mm)
    /\ pc' = "addresses"
    /\ DrawFrame
    /\ UNCHANGED <<hdrPages, rowPages, idx, row_index, note_idx, tableVars,
                   noteLog>>

\* lines 622-661: the two address columns (no e-mail line), y = min(...)
R_Addresses ==
    /\ prog = "review" /\ pc = "addresses"
    /\ \E addr \in 0..MaxAddr :
          DrawBlock("addresses", y - AfterColumns(y, addr, FALSE),
                    (y - AfterColumns(y, addr, FALSE)) + 6 * mm)
    /\ pc' = "prep"
    /\ DrawFrame
    /\ UNCHANGED <<hdrPages, rowPages, idx, row_index, note_idx, tableVars,
                   noteLog>>

\* line 672
R_PreparedEnsure ==
    /\ prog = "review" /\ pc = "prep"
    /\ ensure_space(prep_h + 6 * mm, FALSE)
    /\ pc' = "prep_draw"
    /\ EnsureFrame
    /\ UNCHANGED <<data, noteIters, cells, grand_total>>

\* lines 673-686
R_PreparedDraw ==
    /\ prog = "review" /\ pc = "prep_draw"
    /\ DrawBlock("prepared", prep_h, prep_h + 6 * mm)
    /\ pc' = "pills"
    /\ DrawFrame
    /\ UNCHANGED <<hdrPages, rowPages, idx, row_index, note_idx, tableVars,
                   noteLog>>

\* line 692
R_PillsEnsure ==
    /\ prog = "review" /\ pc = "pills"
    /\ ensure_space(box_h + 8 * mm, FALSE)
    /\ pc' = "pills_draw"
    /\ EnsureFrame
    /\ UNCHANGED <<data, noteIters, cells, grand_total>>

\* lines 694-714
R_PillsDraw ==
    /\ prog = "review" /\ pc = "pills_draw"
    /\ DrawBlock("pills", box_h, box_h + 8 * mm)
    /\ pc' = "table"
    /\ DrawFrame
    /\ UNCHANGED <<hdrPages, rowPages, idx, row_index, note_idx, tableVars,
                   noteLog>>

\* lines 716-722: line_items is copied, the fee row injected, and the table
\* is skipped when the resulting list is empty
R_TableGuard ==
    /\ prog = "review" /\ pc = "table"
    /\ \E document_type \in DocTypes, empty \in BOOLEAN, listed \in BOOLEAN :
          /\ empty => ~listed
          /\ data' = [data EXCEPT
                        !.docType = document_type,
                        !.noItems = empty,
                        !.ended = empty,
                        !.inject = Injects(document_type, listed)]
          /\ pc' = IF empty /\ ~Injects(document_type, listed)
                   THEN "sections" ELSE "hdr"
    /\ UNCHANGED <<fontVars, injectVars,
                   prog, y, pages, need, broke, block, log, footers, borders,
                   hdrPages, rowPages, idx, sect, row_index, note_idx,
                   noteIters, drawn, wrapVars, rowVars, noteLog>>

\* line 743
R_TableHeaderEnsure ==
    /\ prog = "review" /\ pc = "hdr"
    /\ ensure_space(hdr_h, FALSE)
    /\ pc' = "hdr_draw"
    /\ EnsureFrame
    /\ UNCHANGED <<data, noteIters, cells, grand_total>>

\* lines 729-741, 744: draw_ps_header
R_TableHeaderDraw ==
    /\ prog = "review" /\ pc = "hdr_draw"
    /\ DrawBlock("hdr", hdr_h, hdr_h)
    /\ hdrPages' = hdrPages \cup {pages}
    /\ pc' = "rows"
    /\ DrawFrame
    /\ UNCHANGED <<rowPages, idx, row_index, note_idx, tableVars, noteLog>>

\* lines 753-772: the next row is measured (14 mm when it has both a WEEE
\* line and a description, else 8 mm) and ensure_space is called WITHOUT a
\* redraw callback.  The row is a payload item, or, after the last payload
\* item, the injected fee row, which is always a single-line row.
\* The item's numbers are coerced and its price added to grand_total
\* before ensure_space is called.
R_RowEnsure ==
    /\ prog = "review" /\ pc = "rows"
    /\ \/ /\ ~data.ended /\ idx < MaxItems
          /\ \E has_two_lines \in BOOLEAN, it \in RowItems,
                last \in (IF idx + 1 = MaxItems THEN {TRUE} ELSE BOOLEAN) :
                /\ cells' = review_row(it)
                /\ grand_total' = Accumulate(grand_total, review_row(it).added)
                /\ ensure_space(IF has_two_lines THEN ps_row_h_double
                                ELSE row_h, FALSE)
                /\ data' = [data EXCEPT !.ended = last]
       \/ /\ data.ended /\ data.inject /\ ~data.feeDone
          /\ cells' = review_row(FeeItem)
          /\ grand_total' = Accumulate(grand_total, review_row(FeeItem).added)
          /\ ensure_space(row_h, FALSE)
          /\ data' = [data EXCEPT !.feeDone = TRUE]
    /\ pc' = "row_draw"
    /\ EnsureFrame
    /\ UNCHANGED noteIters

\* lines 774-840: one row, with the texts coerced before ensure_space
R_RowDraw ==
    /\ prog = "review" /\ pc = "row_draw"
    /\ DrawBlockFill("row", need, need, 0, RowFill(idx))
    /\ shown_sum' = shown_sum + cells.price
    /\ drawn_sum' = drawn_sum + cells.added
    /\ cells' = NoCells
    /\ rowPages' = rowPages \cup {pages}
    /\ idx' = idx + 1
    /\ pc' = "rows"
    /\ DrawFrame
    /\ UNCHANGED <<hdrPages, row_index, note_idx, grand_total, noteLog>>

\* line 845: the list, fee row included, is exhausted
R_TotalEnsure ==
    /\ prog = "review" /\ pc = "rows"
    /\ data.ended /\ (data.inject => data.feeDone)
    /\ ensure_space(tot_row_h, FALSE)
    /\ pc' = "total_draw"
    /\ EnsureFrame
    /\ UNCHANGED <<data, noteIters, cells, grand_total>>

\* lines 843-853: total band showing _money(grand_total), down(tot_row_h
\* + 8 mm).  The totals are not read again: they are dropped.
R_TotalDraw ==
    /\ prog = "review" /\ pc = "total_draw"
    /\ DrawBlockText("total", tot_row_h, tot_row_h + 8 * mm, Money(grand_total))
    /\ grand_total' = 0
    /\ shown_sum' = 0
    /\ drawn_sum' = 0
    /\ pc' = "sections"
    /\ DrawFrame
    /\ UNCHANGED <<hdrPages, rowPages, idx, row_index, note_idx, cells,
                   noteLog>>

\* line 891: the next section's title band
R_SectionEnsure ==
    /\ prog = "review" /\ pc = "sections"
    /\ sect < Len(SectionSizes)
    /\ ensure_space(section_hdr_h + row_h, FALSE)
    /\ pc' = "band_draw"
    /\ EnsureFrame
    /\ UNCHANGED <<data, noteIters, cells, grand_total>>

\* the title band with row_index = 0 moved inside the loop over sections
R_SectionDraw_resetsParity ==
    /\ prog = "review" /\ pc = "band_draw"
    /\ DrawBlock("band", section_hdr_h, section_hdr_h)
    /\ sect' = sect + 1
    /\ idx' = 0
    /\ row_index' = 0
    /\ pc' = "fields"
    /\ UNCHANGED <<fontVars, injectVars,
                   prog, need, broke, log, pages, footers, borders, data,
                   noteIters, wrapVars, rowVars, noteLog, hdrPages, rowPages,
                   note_idx>>

\* lines 892-900
R_SectionDraw ==
    /\ prog = "review" /\ pc = "band_draw"
    /\ DrawBlock("band", section_hdr_h, section_hdr_h)
    /\ sect' = sect + 1
    /\ idx' = 0
    /\ pc' = "fields"
    /\ UNCHANGED <<fontVars, injectVars,
                   prog, need, broke, log, pages, footers, borders, data,
                   noteIters, wrapVars, rowVars, noteLog, hdrPages, rowPages,
                   row_index,
                   note_idx>>

\* lines 902-915: the value is split on newlines and every part wrapped
\* (data.parts), the row height computed from the line count, ensure_space
\* called; a blank value is shown as a dash, one line.  The last
\* field of the last section is special_instructions, the text the notes
\* box shows too: the box wraps it whole against a wider column, so it has
\* no more lines there than in this row, and none when the text is blank.
R_FieldEnsure ==
    /\ prog = "review" /\ pc = "fields"
    /\ idx < SectionSizes[sect]
    /\ IF sect = Len(SectionSizes) /\ idx = SectionSizes[sect] - 1
       THEN \E n \in (0..MaxValueLines) \cup {LongSpecial},
               extra \in 0..MaxExtra :
               LET parts == IF n = 0 THEN <<1>> ELSE <<n + extra>>
               IN  /\ ensure_space(ThisRowH(LenValueLines(parts)), FALSE)
                   /\ data' = [data EXCEPT !.notes = n, !.parts = parts]
       ELSE \E parts \in ValueParts :
               /\ ensure_space(ThisRowH(LenValueLines(parts)), FALSE)
               /\ data' = [data EXCEPT !.parts = parts]
    /\ pc' = "field_draw"
    /\ EnsureFrame
    /\ UNCHANGED <<noteIters, cells, grand_total>>

\* lines 917-945: one key/value row
R_FieldDraw ==
    /\ prog = "review" /\ pc = "field_draw"
    /\ DrawBlockFill("field", need, need, 0, RowFill(row_index))
    /\ row_index' = row_index + 1
    /\ idx' = idx + 1
    /\ pc' = IF idx + 1 < SectionSizes[sect] THEN "fields" ELSE "sections"
    /\ DrawFrame
    /\ UNCHANGED <<hdrPages, rowPages, note_idx, tableVars, noteLog>>

\* lines 947-952: after the last section, the bottom border and down(8 mm)
R_Bottom ==
    /\ prog = "review" /\ pc = "sections"
    /\ sect = Len(SectionSizes)
    /\ y' = y - 8 * mm
    /\ pc' = "notes"
    /\ UNCHANGED <<fontVars, injectVars,
                   prog, need, broke, block, log, pages, footers, borders,
                   hdrPages, rowPages, data, idx, sect, row_index, note_idx,
                   noteIters, drawn, wrapVars, rowVars, noteLog>>

\* lines 954-959: the notes box is measured from its line count
R_NotesEnsure ==
    /\ prog = "review" /\ pc = "notes"
    /\ ensure_space(CommContentH(data.notes), FALSE)
    /\ pc' = "notes_draw"
    /\ EnsureFrame
    /\ UNCHANGED <<data, noteIters, cells, grand_total>>

\* lines 961-979: the box with every note line, or the placeholder
R_NotesDraw ==
    /\ prog = "review" /\ pc = "notes_draw"
    /\ DrawBlock(IF data.notes = 0 THEN "no_notes" ELSE "notes", need, need)
    /\ note_idx' = data.notes
    /\ noteLog' = LinesFrom(0, data.notes)
    /\ pc' = "footer"
    /\ DrawFrame
    /\ UNCHANGED <<hdrPages, rowPages, idx, row_index, tableVars>>

\* the end of the render without the draw_footer() call before c.save()
R_Finish_noFooter ==
    /\ prog = "review" /\ pc = "footer"
    /\ pc' = "done"
    /\ UNCHANGED <<fontVars, injectVars,
                   prog, y, pages, need, broke, block, log, footers, borders,
                   hdrPages, rowPages, data, idx, sect, row_index, note_idx,
                   noteIters, drawn, wrapVars, rowVars, noteLog>>

\* lines 981-985: the last page's footer, c.save()
R_Finish ==
    /\ prog = "review" /\ pc = "footer"
    /\ footers' = [footers EXCEPT ![pages] = @ + 1]
    /\ pc' = "done"
    /\ UNCHANGED <<fontVars, injectVars,
                   prog, y, pages, need, broke, block, log, borders, hdrPages,
                   rowPages, data, idx, sect, row_index, note_idx, noteIters,
                   drawn, wrapVars, rowVars, noteLog>>

ReviewNext ==
    \/ R_Logo \/ R_Title \/ R_Addresses
    \/ R_PreparedEnsure \/ R_PreparedDraw
    \/ R_PillsEnsure \/ R_PillsDraw
    \/ R_TableGuard \/ R_TableHeaderEnsure \/ R_TableHeaderDraw
    \/ R_RowEnsure \/ R_RowDraw \/ R_TotalEnsure \/ R_TotalDraw
    \/ R_SectionEnsure \/ R_SectionDraw \/ R_FieldEnsure \/ R_FieldDraw
    \/ R_Bottom \/ R_NotesEnsure \/ R_NotesDraw
    \/ R_Finish

----------------------------------------------------------------------------
(* generate_pdf of the older copy (src/pdf-extractor/generate_quote.py):   *)
(* one page, no ensure_space, no try around the numeric conversions.       *)

\* line_h = font_size * 1.35 of the 19 pt title: 25.65 pt, 9.05 mm, taken
\* as 9 mm
title_line_h == 9 * mm

\* lines 281-296: the image, or the "WASTE EXPERTS" text when the file is
\* absent or anything in the try fails
legacy_logo(logo) == IF logo = "ok" THEN "logo" ELSE "placeholder"

\* lines 274-298
L_Logo ==
    /\ prog = "legacy" /\ pc = "start"
    /\ \E logo \in LogoOutcomes :
          DrawBlock(legacy_logo(logo), logo_h, logo_h + 8 * mm)
    /\ pc' = "title"
    /\ DrawFrame
    /\ UNCHANGED <<hdrPages, rowPages, idx, row_index, note_idx, tableVars,
                   noteLog>>

\* lines 300-339: the title on one line, or on two with down(line_h), then
\* down(6 mm), the divider, down(7 mm)
L_Title ==
    /\ prog = "legacy" /\ pc = "title"
    /\ \E two_lines \in BOOLEAN :
          DrawBlock("heading", 0,
                    (IF two_lines THEN title_line_h ELSE 0) + 6 * mm + 7 * mm)
    /\ pc' = "addresses"
    /\ DrawFrame
    /\ UNCHANGED <<hdrPages, rowPages, idx, row_index, note_idx, tableVars,
                   noteLog>>

\* lines 341-381: the two address columns, at most five address lines
L_Addresses ==
    /\ prog = "legacy" /\ pc = "addresses"
    /\ \E addr \in 0..MaxAddr, email \in BOOLEAN :
          LET bottom_left == y - TEXT_LINE - 5 * mm - TEXT_LINE * Min(addr, 5)
                               - (IF email THEN TEXT_LINE ELSE 0)
              bottom == Min(bottom_left, BottomRight(y))
          IN  DrawBlock("addresses", y - bottom, (y - bottom) + 6 * mm)
    /\ pc' = "prep"
    /\ DrawFrame
    /\ UNCHANGED <<hdrPages, rowPages, idx, row_index, note_idx, tableVars,
                   noteLog>>

\* lines 383-396
L_Prepared ==
    /\ prog = "legacy" /\ pc = "prep"
    /\ DrawBlock("prepared", prep_h, prep_h + 6 * mm)
    /\ pc' = "pills"
    /\ DrawFrame
    /\ UNCHANGED <<hdrPages, rowPages, idx, row_index, note_idx, tableVars,
                   noteLog>>

\* lines 398-419
L_Pills ==
    /\ prog = "legacy" /\ pc = "pills"
    /\ DrawBlock("pills", box_h, box_h + 8 * mm)
    /\ pc' = "table"
    /\ DrawFrame
    /\ UNCHANGED <<hdrPages, rowPages, idx, row_index, note_idx, tableVars,
                   noteLog>>

\* lines 421-439: the header row
L_TableHeader ==
    /\ prog = "legacy" /\ pc = "table"
    /\ DrawBlock("hdr", hdr_h, hdr_h)
    /\ hdrPages' = hdrPages \cup {pages}
    /\ pc' = "rows"
    /\ DrawFrame
    /\ UNCHANGED <<rowPages, idx, row_index, note_idx, tableVars, noteLog>>

\* lines 444-479: one row; a float() that fails ends the render
L_Row ==
    /\ prog = "legacy" /\ pc = "rows"
    /\ idx < MaxItems
    /\ \E it \in RowItems :
          IF legacy_row(it).raised
          THEN /\ pc' = "raised"
               /\ cells' = legacy_row(it)
               /\ UNCHANGED <<y, block, drawn, rowPages, idx, grand_total,
                              shown_sum, drawn_sum>>
          ELSE /\ pc' = "rows"
               /\ grand_total' = Accumulate(grand_total, legacy_row(it).added)
               /\ shown_sum' = shown_sum + legacy_row(it).price
               /\ drawn_sum' = drawn_sum + legacy_row(it).added
               /\ DrawBlockFill("row", row_h, row_h, 0, RowFill(idx))
               /\ rowPages' = rowPages \cup {pages}
               /\ idx' = idx + 1
               /\ UNCHANGED cells
    /\ DrawFrame
    /\ UNCHANGED <<hdrPages, row_index, note_idx, noteLog>>

\* lines 481-504: down(6 mm), the subtotal and total bands
L_Summary ==
    /\ prog = "legacy" /\ pc = "rows"
    /\ block' = [kind |-> "total", page |-> pages, top |-> y - 6 * mm,
                 h |-> sub_h + 2 * mm + tot_h, text |-> Money(grand_total),
                 fill |-> "none"]
    /\ drawn' = drawn \cup {"total"}
    /\ y' = y - 6 * mm - (sub_h + 2 * mm + tot_h + 10 * mm)
    /\ grand_total' = 0
    /\ shown_sum' = 0
    /\ drawn_sum' = 0
    /\ pc' = "notes"
    /\ DrawFrame
    /\ UNCHANGED <<hdrPages, rowPages, idx, row_index, note_idx, cells,
                   noteLog>>

\* lines 506-529: one box of comm_h; the for loop over the wrapped lines
\* breaks at the first line that would start below the box
L_Notes ==
    /\ prog = "legacy" /\ pc = "notes"
    /\ \E n \in 0..MaxNoteLines :
          LET comm_h == NotesBoxHeight(y)
              next == DrawNoteLines(0, y - 11 * mm, y - comm_h + 4 * mm, n)
          IN  /\ data' = [data EXCEPT !.notes = n]
              /\ note_idx' = next
              /\ noteLog' = LinesFrom(0, next)
              /\ block' = [kind |-> IF n = 0 THEN "no_notes" ELSE "notes",
                           page |-> pages, top |-> y, h |-> comm_h, text |-> 0,
                           fill |-> "none"]
              /\ drawn' = drawn \cup {IF n = 0 THEN "no_notes" ELSE "notes"}
    /\ pc' = "footer"
    /\ UNCHANGED <<fontVars, injectVars,
                   prog, y, pages, need, broke, log, footers, borders, hdrPages,
                   rowPages, idx, sect, row_index, noteIters, wrapVars, rowVars>>

\* lines 531-543: the footer, c.save()
L_Finish ==
    /\ prog = "legacy" /\ pc = "footer"
    /\ footers' = [footers EXCEPT ![pages] = @ + 1]
    /\ pc' = "done"
    /\ UNCHANGED <<fontVars, injectVars,
                   prog, y, pages, need, broke, block, log, borders, hdrPages,
                   rowPages, data, idx, sect, row_index, note_idx, noteIters,
                   drawn, wrapVars, rowVars, noteLog>>

LegacyNext ==
    \/ L_Logo \/ L_Title \/ L_Addresses \/ L_Prepared \/ L_Pills
    \/ L_TableHeader \/ L_Row \/ L_Summary \/ L_Notes \/ L_Finish

----------------------------------------------------------------------------
(* The row code of the three renderers as a program of its own: one line   *)
(* item through one renderer's coercions.                                  *)

InitRow ==
    /\ prog = "row"
    /\ pc = "call"
    /\ item \in Items \cup {FeeItem}
    /\ cells = NoCells
    /\ grand_total = 0
    /\ shown_sum = 0
    /\ drawn_sum = 0
    /\ LayoutIdle
    /\ WrapIdle
    /\ FontsIdle
    /\ InjectIdle

RowFrame == UNCHANGED <<fontVars, injectVars,
                        prog, y, pages, need, broke, block, log, footers,
                        borders, hdrPages, rowPages, data, idx, sect,
                        row_index, note_idx, noteIters, drawn, wrapVars, item,
                        noteLog>>

\* what a row leaves behind: its cells, and the totals after it
RowResult(r) ==
    /\ cells' = r
    /\ grand_total' = IF r.raised THEN grand_total
                      ELSE Accumulate(grand_total, r.added)
    /\ shown_sum' = IF r.raised THEN shown_sum ELSE shown_sum + r.price
    /\ drawn_sum' = IF r.raised THEN drawn_sum ELSE drawn_sum + r.added

\* app.py: one iteration of the line-item loop
ReviewRow ==
    /\ prog = "row" /\ pc = "call"
    /\ RowResult(review_row(item))
    /\ pc' = "row_review"
    /\ RowFrame

\* generate_quote.py: one iteration of the line-item loop
QuoteRow ==
    /\ prog = "row" /\ pc = "call"
    /\ ~item.fee
    /\ RowResult(quote_row(item))
    /\ pc' = "row_quote"
    /\ RowFrame

\* pdf-extractor/generate_quote.py: one iteration of the line-item loop
LegacyRow ==
    /\ prog = "row" /\ pc = "call"
    /\ ~item.fee
    /\ RowResult(legacy_row(item))
    /\ pc' = IF legacy_row(item).raised THEN "raised" ELSE "row_legacy"
    /\ RowFrame

RowNext == ReviewRow \/ QuoteRow \/ LegacyRow

----------------------------------------------------------------------------
(* The text wrappers as a program of their own: one call of one wrapper.   *)

RECURSIVE SeqsUpTo(_)
(* _inject_doc_type_line (src/app.py) called on a list of line items and *)
(* again on what it left.                                                  *)

RECURSIVE ListsUpTo(_)
ListsUpTo(n) ==
    IF n = 0 THEN {<<>>}
    ELSE LET shorter == ListsUpTo(n - 1)
         IN  shorter \cup
             {Append(l, [description |-> d, fee |-> FALSE]) :
                l \in {m \in shorter : Len(m) = n - 1}, d \in Descriptions}

InitInject ==
    /\ prog = "inject"
    /\ pc = "call"
    /\ RenderIdle
    /\ WrapIdle
    /\ FontsIdle
    /\ lineItems \in ListsUpTo(MaxListed)
    /\ docType \in DocTypes
    /\ history = <<lineItems>>

\* lines 512-530: one call; the list is changed in place
CallInject ==
    /\ prog = "inject" /\ pc = "call"
    /\ Len(history) <= MaxCalls
    /\ lineItems' = inject_doc_type_line(lineItems, docType)
    /\ history' = Append(history, lineItems')
    /\ UNCHANGED <<fontVars, prog, renderVars, wrapVars, rowVars, noteLog,
                   docType>>

SpecInject == InitInject /\ [][CallInject]_vars

----------------------------------------------------------------------------
(* _ensure_fonts (src/app.py) under concurrent render calls: every call  *)
(* of _build_review_pdf starts with _ensure_fonts() and then lays out.     *)
(* The steps of one call interleave with those of the other between the   *)
(* statements of _ensure_fonts (registerFont reads a file).                *)

InitFonts ==
    /\ prog = "fonts"
    /\ pc = "concurrent"
    /\ RenderIdle
    /\ WrapIdle
    /\ InjectIdle
    /\ fonts_registered = FALSE
    /\ FONT = Faces
    /\ registered = {}
    /\ font_files \in SUBSET (1..Len(Faces))
    /\ caller = [t \in Callers |-> [pc |-> "call", all_ok |-> TRUE, i |-> 0,
                                     resolved |-> TRUE]]

FontFrame == UNCHANGED <<prog, renderVars, wrapVars, rowVars, noteLog,
                         font_files, injectVars>>

\* font resolution has finished: all four faces are registered, or all
\* four names are the built-in ones
Resolved ==
    \/ \A f \in 1..Len(Faces) : Faces[f] \in registered
    \/ \A f \in 1..Len(Faces) : FONT[f] = Fallbacks[f]

\* lines 314-315: if _fonts_registered: return
F_Check(t) ==
    /\ prog = "fonts" /\ caller[t].pc = "call"
    /\ caller' = [caller EXCEPT ![t].pc = IF fonts_registered THEN "layout"
                                          ELSE "set"]
    /\ UNCHANGED <<fonts_registered, FONT, registered>>
    /\ FontFrame

\* lines 316-324: _fonts_registered = True, all_ok = True
F_Set(t) ==
    /\ prog = "fonts" /\ caller[t].pc = "set"
    /\ fonts_registered' = TRUE
    /\ caller' = [caller EXCEPT ![t].pc = "loop", ![t].all_ok = TRUE,
                                ![t].i = 1]
    /\ UNCHANGED <<FONT, registered>>
    /\ FontFrame

\* lines 325-333: one iteration of the loop over specs; a face whose file
\* is missing or does not load clears all_ok.  After the fourth face the
\* function returns when all_ok, else goes on to the fallback names
F_Register(t) ==
    /\ prog = "fonts" /\ caller[t].pc = "loop"
    /\ LET i == caller[t].i
           found == i \in font_files
           ok == caller[t].all_ok /\ found
       IN  /\ registered' = IF found THEN registered \cup {Faces[i]}
                             ELSE registered
           /\ caller' = [caller EXCEPT
                           ![t].all_ok = ok,
                           ![t].i = IF i < Len(Faces) THEN i + 1 ELSE 1,
                           ![t].pc = IF i < Len(Faces) THEN "loop"
                                     ELSE IF ok THEN "layout" ELSE "fallback"]
    /\ UNCHANGED <<fonts_registered, FONT>>
    /\ FontFrame

\* lines 335-339: the four assignments to FONT_R, FONT_SB, FONT_B, FONT_XB,
\* one at a time
F_Fallback(t) ==
    /\ prog = "fonts" /\ caller[t].pc = "fallback"
    /\ LET i == caller[t].i
       IN  /\ FONT' = [FONT EXCEPT ![i] = Fallbacks[i]]
           /\ caller' = [caller EXCEPT
                           ![t].i = IF i < Len(Faces) THEN i + 1 ELSE 1,
                           ![t].pc = IF i < Len(Faces) THEN "fallback"
                                     ELSE "layout"]
    /\ UNCHANGED <<fonts_registered, registered>>
    /\ FontFrame

\* lines 538-540: _ensure_fonts has returned and the layout begins with
\* the names FONT_* hold; resolved records whether font resolution had
\* finished at that moment
F_Layout(t) ==
    /\ prog = "fonts" /\ caller[t].pc = "layout"
    /\ caller' = [caller EXCEPT ![t].pc = "laid_out",
                                ![t].resolved = Resolved]
    /\ UNCHANGED <<fonts_registered, FONT, registered>>
    /\ FontFrame

FontsNext ==
    \E t \in Callers :
       F_Check(t) \/ F_Set(t) \/ F_Register(t) \/ F_Fallback(t) \/ F_Layout(t)

SpecFonts == InitFonts /\ [][FontsNext]_vars

----------------------------------------------------------------------------
SeqsUpTo(n) ==
    IF n = 0 THEN {<<>>}
    ELSE LET shorter == SeqsUpTo(n - 1)
         IN  shorter \cup {Append(s, ch) : s \in {t \in shorter : Len(t) = n - 1},
                                           ch \in Alphabet}

Texts == SeqsUpTo(MaxLen) \cup {None}

InitWrap ==
    /\ prog = "wrap"
    /\ pc = "call"
    /\ wtext \in Texts
    /\ wwidth \in 1..MaxWidth
    /\ wlines = <<>>
    /\ wfn = "none"
    /\ RenderIdle
    /\ FontsIdle
    /\ InjectIdle

WrapFrame == UNCHANGED <<fontVars, injectVars,
                         prog, y, pages, need, broke, block, log, footers,
                         borders, hdrPages, rowPages, data, idx, sect,
                         row_index, note_idx, noteIters, drawn, wtext, wwidth,
                         rowVars, noteLog>>

\* generate_quote.py: wrap_text(c, text, font, size, max_width)
CallWrapText ==
    /\ prog = "wrap" /\ pc = "call"
    /\ wlines' = wrap_text(wtext, wwidth)
    /\ wfn' = "wrap_text"
    /\ pc' = "returned"
    /\ WrapFrame

\* app.py: _wrap_text(c, text, font, size, max_width)
CallAppWrapText ==
    /\ prog = "wrap" /\ pc = "call"
    /\ wlines' = app_wrap_text(wtext, wwidth)
    /\ wfn' = "_wrap_text"
    /\ pc' = "returned"
    /\ WrapFrame

WrapNext == CallWrapText \/ CallAppWrapText

Init == InitRender

Next == QuoteNext \/ ReviewNext

Spec == Init /\ [][Next]_vars

SpecWrap == InitWrap /\ [][WrapNext]_vars

SpecRow == InitRow /\ [][RowNext]_vars

InitLegacy == prog = "legacy" /\ RenderStart

SpecLegacy == InitLegacy /\ [][LegacyNext]_vars

\* one generate_pdf call that is never abandoned midway: the render is
\* synchronous, so every enabled step is eventually taken
InitQuote == InitRender /\ prog = "quote"

FairQuote == InitQuote /\ [][QuoteNext]_vars /\ WF_vars(QuoteNext)

----------------------------------------------------------------------------
(* Properties.                                                             *)

\* the positions right after an ensure_space call has returned
EnsuredPcs == {"prep_draw", "pills_draw", "hdr_draw", "row_draw",
               "summary_draw", "notes_box", "total_draw", "band_draw",
               "field_draw", "notes_draw"}

TableKinds == {"hdr", "row", "total"}

CeilDiv(a, b) == (a + b - 1) \div b

\* lines a notes box of the maximum height holds
LinesPerBox == DrawNoteLines(0, NOTES_MAX - 11 * mm, 4 * mm, NOTES_MAX)

\* C1: after ensure_space(h) has returned (page kept or broken, redraw
\* callback run), the cursor is at least h above the bottom margin.
C1_CursorSafety == pc \in EnsuredPcs => y - MARGIN >= need

\* C2: every block drawn has its bottom edge at or above the bottom margin
\* of the page it is drawn on.
C2_BlockAboveMargin == block.kind # "none" => block.top - block.h >= MARGIN

\* C3: every physical page that holds a line-item row also holds a table
\* header.
C3_HeaderOnRowPages == rowPages \subseteq hdrPages

\* C4: the notes loop terminates, after at most
\* ceil(wrappedLineCount / linesPerBox) + 1 iterations.
C4_NotesTermination ==
    /\ <>(pc = "done")
    /\ [](pc \in {"notes_loop", "notes_box", "footer", "done"}
            => noteIters <= CeilDiv(data.notes, LinesPerBox) + 1)

C4_Witness ==
    /\ prog = "quote" /\ pc = "done" /\ pages >= 2
    /\ data.notes > LinesPerBox
    /\ noteIters = CeilDiv(data.notes, LinesPerBox) + 1

\* the words of all returned lines, in line order
RECURSIVE WordsOfLines(_)
WordsOfLines(lines) ==
    IF lines = <<>> THEN <<>>
    ELSE Split(Head(lines)) \o WordsOfLines(Tail(lines))

\* the characters of a sequence of words, in order
RECURSIVE Glue(_)
Glue(words) == IF words = <<>> THEN <<>> ELSE Head(words) \o Glue(Tail(words))

InputWords == Split(OrEmpty(wtext))

\* C5: every line a wrapper returns is no wider than max_width, unless it
\* is a single character that alone is wider.
C5_WrapWidthBound ==
    pc = "returned" =>
        \A i \in 1..Len(wlines) :
            stringWidth(wlines[i]) <= wwidth \/ Len(wlines[i]) = 1

\* C6 as stated: the words of the returned lines are exactly the words of
\* the input, in order.
C6_WordsPreserved == pc = "returned" => WordsOfLines(wlines) = InputWords

\* out is inp with every word wider than w cut into consecutive chunks and
\* every other word left whole
RECURSIVE Chunked(_, _, _)
Chunked(out, inp, w) ==
    IF inp = <<>> THEN out = <<>>
    ELSE IF out = <<>> THEN FALSE
    ELSE IF stringWidth(Head(inp)) <= w
         THEN Head(out) = Head(inp) /\ Chunked(Tail(out), Tail(inp), w)
         ELSE \E k \in 1..Len(out) :
                 /\ Glue(SubSeq(out, 1, k)) = Head(inp)
                 /\ Chunked(SubSeq(out, k + 1, Len(out)), Tail(inp), w)

\* C6 as amended: the words of the returned lines are the words of the
\* input in order, none dropped, duplicated or reordered, except that a
\* word wider than max_width may appear as consecutive chunks of itself.
C6_WrapCorrectness ==
    pc = "returned" => Chunked(WordsOfLines(wlines), InputWords, wwidth)

\* a two-word text whose first word is cut in two and whose second word
\* shares a line with the second chunk
C6_Witness ==
    /\ pc = "returned" /\ wfn = "wrap_text"
    /\ Len(InputWords) = 2 /\ Len(wlines) = 2
    /\ Len(WordsOfLines(wlines)) = 3
    /\ Chunked(WordsOfLines(wlines), InputWords, wwidth)

\* C7: a wrapper never returns an empty list, and returns exactly [""] for
\* an empty, None or whitespace-only text.
C7_WrapTotality ==
    pc = "returned" =>
        /\ Len(wlines) >= 1
        /\ InputWords = <<>> => wlines = << <<>> >>

C7_Witness ==
    /\ pc = "returned" /\ wtext = None /\ wlines = << <<>> >>

\* the spare height ensure_space keeps above the bottom margin
Reserve == IF prog = "review" THEN RESERVE ELSE 0

AllSectionsDrawn ==
    /\ sect = Len(SectionSizes)
    /\ row_index = SectionSizes[1] + SectionSizes[2] + SectionSizes[3]
                   + SectionSizes[4]
    /\ {"band", "field"} \subseteq drawn

\* C10 as stated: with zero line items the review render draws no part of
\* the table and every key/value section, whatever the document type.
C10_NoItemsNoTable ==
    (prog = "review" /\ pc = "done" /\ data.noItems) =>
        /\ drawn \cap TableKinds = {}
        /\ AllSectionsDrawn

\* C10 as amended: in _build_review_pdf, with zero line items and a
\* document type that is neither note type, no part of the table is drawn
\* and every key/value section is.
C10_NoItemsNoNoteNoTable ==
    (prog = "review" /\ pc = "done" /\ data.noItems
        /\ data.docType \in {"None", "Quote"}) =>
        /\ drawn \cap TableKinds = {}
        /\ AllSectionsDrawn

C10_Witness ==
    /\ prog = "review" /\ pc = "done" /\ data.noItems
    /\ data.docType = "Quote"
    /\ drawn \cap TableKinds = {}
    /\ AllSectionsDrawn

\* a field that gives no number: absent, null, "" or non-numeric text
Unusable(v) == v.t \in {"missing", "None", "empty", "text"}

\* the positions after the row code has run on the item
RowDonePcs == {"row_review", "row_quote", "row_legacy", "raised"}

\* C11: the row code never raises on a line item none of whose price
\* fields gives a number (its quantity being a number or absent): the row
\* shows 0.00 and adds 0 to the running total.
C11_MalformedPriceIsZero ==
    (pc \in RowDonePcs /\ item.quantity.t \in {"missing", "num"}
        /\ Unusable(item.price) /\ Unusable(item.line_total)
        /\ Unusable(item.unit_price)) =>
        /\ ~cells.raised
        /\ cells.price = 0
        /\ cells.added = 0

\* C12: the quantity a row of generate_pdf or _build_review_pdf shows is at
\* least 1, whatever the item's quantity field holds.
C12_QuantityAtLeastOne ==
    (pc \in {"row_review", "row_quote"} /\ cells.qty_drawn) =>
        cells.qty >= 1000

\* C13: whatever the logo sources give, the logo slot holds the image or
\* the text placeholder, never nothing.
C13_LogoOrPlaceholder == block.kind # "nologo"

\* a price field a number can be taken from: it parses, and is not 0
Usable(v) == FloatOk(v) /\ v.v # 0

\* the first of price, line_total, unit_price that is usable, else 0.0
FirstUsable(it) ==
    IF Usable(it.price) THEN it.price.v
    ELSE IF Usable(it.line_total) THEN it.line_total.v
    ELSE IF Usable(it.unit_price) THEN it.unit_price.v
    ELSE 0

\* C19: the price of a row of _build_review_pdf is the first usable one of
\* price, line_total and unit_price, and 0.0 only when none is usable.
C19_FirstUsablePrice ==
    pc = "row_review" => cells.added = FirstUsable(item)

\* C14: with notes, every iteration of the notes loop of generate_pdf
\* moves the next-line index forward by at least one; without notes the
\* loop draws the "No additional notes." box and exits in its first and
\* only iteration.
C14_NotesProgress ==
    /\ [][(prog = "quote" /\ pc = "notes_box" /\ data.notes > 0)
            => note_idx' > note_idx]_vars
    /\ [][(prog = "quote" /\ pc = "notes_box" /\ data.notes = 0)
            => (pc' = "footer" /\ block'.kind = "no_notes"
                /\ noteIters = 1)]_vars
    /\ []((prog = "quote" /\ pc = "done" /\ data.notes = 0)
            => (noteIters = 1 /\ "notes" \notin drawn))

\* a box of the minimum height has drawn lines and more lines remain
C14_Witness ==
    /\ prog = "quote" /\ pc = "notes_loop"
    /\ block.kind = "notes" /\ block.h = NOTES_MIN
    /\ note_idx >= 1 /\ note_idx < data.notes

\* the place of a canvas operation in the order of a page break
OpRank(op) ==
    CASE op = "draw_footer" -> 1
      [] op = "showPage" -> 2
      [] op = "reset_y" -> 3
      [] op = "draw_top_border" -> 4
      [] op = "redraw" -> 5

\* C15: a page break of ensure_space draws the footer on the page being
\* left, starts the new page, resets the cursor, draws the accent bar on
\* the new page and only then runs the redraw callback, on the new page;
\* the new page has no footer yet.
C15_BreakOrder ==
    (pc \in EnsuredPcs /\ broke) =>
        /\ Len(log) \in {4, 5}
        /\ \A i \in 1..Len(log) :
              /\ OpRank(log[i].op) = i
              /\ log[i].page = IF i <= 2 THEN pages - 1 ELSE pages
        /\ footers[pages - 1] = 1 /\ footers[pages] = 0
        /\ borders[pages] = 1
        /\ y = TopOfPage - (IF Len(log) = 5 THEN hdr_h ELSE 0)
        /\ Len(log) = 5 => (block.kind = "hdr" /\ block.page = pages
                            /\ pages \in hdrPages)

\* a row of generate_pdf's table moved to a new page, the header redrawn
C15_Witness ==
    /\ prog = "quote" /\ pc = "row_draw" /\ broke
    /\ Len(log) = 5 /\ log[5].op = "redraw"

\* what an ensure_space call that does nothing leaves alone
EnsureNoOp ==
    /\ UNCHANGED <<y, pages, footers, borders, hdrPages, block>>
    /\ log' = <<>>
    /\ ~broke'

C17_NotesBoxBounds ==
    (prog = "quote" /\ block.kind \in {"notes", "no_notes"}) =>
        /\ NOTES_MIN <= block.h
        /\ block.h <= NOTES_MAX
        /\ block.top - block.h >= MARGIN

\* a box raised to the minimum height because less than 22 mm remained
\* above the reserve, in a later iteration of the loop
C17_Witness ==
    /\ prog = "quote" /\ block.kind = "notes" /\ block.h = NOTES_MIN
    /\ block.top - MARGIN - RESERVE < NOTES_MIN
    /\ noteIters >= 2

\* C18: when the render is finished every wrapped notes line has been
\* drawn exactly once, in its original order.
C18_EveryNoteLineOnce == pc = "done" => noteLog = LinesFrom(0, data.notes)

\* the step that draws the total band
BandStep == pc \in {"total_draw", "summary_draw"} /\ pc' # pc

\* C20 as stated: the total band is drawn once, after the last row, and
\* shows exactly the sum of the prices the rows drawn show.
C20_TotalIsSumOfShown ==
    [][BandStep => (data.ended /\ "total" \notin drawn
                    /\ block'.kind = "total"
                    /\ block'.text = shown_sum)]_vars

\* C20 as amended: the total band is drawn once, after the last row, and
\* shows, rounded to the penny, the sum of the unrounded prices of the rows
\* drawn, the injected fee row included, whatever page breaks occurred.
C20_TotalIsRoundedSum ==
    [][BandStep => (data.ended /\ "total" \notin drawn
                    /\ block'.kind = "total"
                    /\ block'.text = Money(drawn_sum))]_vars

\* the band of a review table that went over a page break: the fee row
\* and two rows priced 1.004, 42.01 in all
C20_Witness ==
    /\ prog = "review" /\ block.kind = "total" /\ pc = "sections"
    /\ rowPages = {1, 2}
    /\ block.text = Money(FeeItem.price.v + 2 * 1004)

\* the step that draws a key/value row
FieldStep == pc = "field_draw" /\ pc' # pc

\* C21: the height of a key/value row is max(8 mm, lines * 4 mm + 4 mm),
\* lines counting the wrapped lines of every newline-separated part of the
\* value; ensure_space is called with exactly this height before any of
\* the row is drawn, the row is drawn with this height from the cursor
\* ensure_space left, and the cursor then moves down by exactly this height.
C21_FieldRowHeight ==
    /\ [][(pc = "fields" /\ pc' # pc) =>
            /\ pc' = "field_draw"
            /\ need' = (IF LenValueLines(data'.parts) * 4 * mm + 4 * mm > 8 * mm
                        THEN LenValueLines(data'.parts) * 4 * mm + 4 * mm
                        ELSE 8 * mm)
            /\ UNCHANGED <<block, drawn>>]_vars
    /\ [][FieldStep =>
            /\ UNCHANGED <<need, data, pages>>
            /\ block'.kind = "field" /\ block'.page = pages
            /\ block'.top = y /\ block'.h = need
            /\ y' = y - need]_vars

\* a value of two parts, one line each, drawn as a 12 mm row at the top of
\* a new page
C21_Witness ==
    /\ block.kind = "field" /\ data.parts = <<1, 1>> /\ block.h = 12 * mm
    /\ broke /\ block.top = TopOfPage

\* key/value rows drawn in the sections before section s
RECURSIVE FieldsBefore(_)
FieldsBefore(s) ==
    IF s <= 1 THEN 0 ELSE SectionSizes[s - 1] + FieldsBefore(s - 1)

\* the step that draws a line-item row
RowStep == pc = "row_draw" /\ pc' # pc

\* C22: the counter that selects the row background goes up by one with
\* every key/value row and changes at no other step, neither at the start
\* of a section nor at a page break: the k-th key/value row of the document
\* is shaded by the parity of k - 1 whatever section or page it is on.  The
\* rows of the line-item tables are shaded by the parity of their index in
\* line_items in the same way.
C22_ParityNeverReset ==
    /\ [][FieldStep =>
            /\ row_index = FieldsBefore(sect) + idx
            /\ row_index' = row_index + 1
            /\ block'.fill = (IF (FieldsBefore(sect) + idx) % 2 = 0
                              THEN "LIGHT_ROW" ELSE "WHITE")]_vars
    /\ [][~FieldStep => UNCHANGED row_index]_vars
    /\ [][(RowStep /\ prog \in {"quote", "review"}) =>
            /\ idx' = idx + 1
            /\ block'.fill = (IF idx % 2 = 0 THEN "LIGHT_ROW"
                              ELSE "WHITE")]_vars
    /\ [][(prog = "quote" /\ ~RowStep) => UNCHANGED idx]_vars

\* the first row of the second section, the fourth key/value row, drawn
\* white at the top of a new page
C22_Witness ==
    /\ prog = "review" /\ block.kind = "field" /\ sect = 2 /\ idx = 1
    /\ row_index = 4 /\ block.fill = "WHITE"
    /\ broke /\ block.top = TopOfPage

\* the step that lays out the two address columns
AddressStep == pc = "addresses" /\ pc' # pc /\ prog \in {"quote", "review"}

\* C23: both address columns start at the cursor the block found; the
\* block ends at the lower of the two column ends, for 0 to 6 address lines
\* drawn (with or without the e-mail line in generate_pdf), the cursor
\* resumes 6 mm below it, and the next block starts below both columns.
C23_CursorBelowBothColumns ==
    /\ [][AddressStep =>
            \E n \in 0..6, e \in (IF prog = "quote" THEN BOOLEAN ELSE {FALSE}) :
               LET bottom_left == y - TEXT_LINE - 5 * mm - n * TEXT_LINE
                                    - (IF e THEN TEXT_LINE ELSE 0)
                   bottom_right == y - TEXT_LINE - 5 * mm - 3 * TEXT_LINE
                   lower == IF bottom_left < bottom_right THEN bottom_left
                            ELSE bottom_right
               IN  /\ block'.kind = "addresses" /\ block'.top = y
                   /\ block'.top - block'.h = lower
                   /\ y' = lower - 6 * mm]_vars
    /\ [][(block.kind = "addresses" /\ block' # block) =>
            /\ block'.page = block.page
            /\ block'.top <= block.top - block.h]_vars

\* generate_pdf with six address lines and an e-mail line: the bill-to
\* column is the taller one, by four lines
C23_Witness ==
    /\ prog = "quote" /\ block.kind = "addresses"
    /\ block.h = TEXT_LINE + 5 * mm + 7 * TEXT_LINE
    /\ y = block.top - block.h - 6 * mm

\* the render is between the logo and the drawing of the prepared-by box
HeaderPcs == {"title", "addresses", "prep", "prep_draw"}

\* C24: the header block fits on the first page whatever the title, the
\* address lines and the e-mail are: up to the drawing of the prepared-by
\* box the render is on page 1, no ensure_space call has started a page,
\* the cursor is above the bottom margin and the address block ends above
\* it; the header block is at most 84 mm high in generate_pdf and 77.5 mm
\* in _build_review_pdf.
C24_HeaderFitsFirstPage ==
    (prog \in {"quote", "review"} /\ pc \in HeaderPcs) =>
        /\ pages = 1 /\ ~broke /\ log = <<>>
        /\ y > MARGIN
        /\ block.page = 1
        /\ pc \in {"prep", "prep_draw"} =>
              /\ block.kind = "addresses"
              /\ block.top - block.h > MARGIN
              /\ y >= TopOfPage - (IF prog = "quote" THEN 168 ELSE 155)

\* generate_pdf after ensure_space for the prepared-by box, under the
\* tallest header block: six address lines and an e-mail line
C24_Witness ==
    /\ prog = "quote" /\ pc = "prep_draw" /\ need = prep_h + 6 * mm
    /\ y = TopOfPage - 84 * mm

\* C25: every physical page carries exactly one top accent bar from the
\* moment it becomes active, every page that was left carries exactly one
\* footer, the active page carries none until the render ends and exactly
\* one when it has finished.
C25_OneFooterOneBarPerPage ==
    /\ Len(footers) = pages /\ Len(borders) = pages
    /\ \A p \in 1..pages :
          /\ footers[p] = (IF p < pages \/ pc = "done" THEN 1 ELSE 0)
          /\ borders[p] = (IF pc = "start" THEN 0 ELSE 1)

\* a finished three-page render of _build_review_pdf
C25_Witness ==
    /\ prog = "review" /\ pc = "done" /\ pages = 3
    /\ footers = <<1, 1, 1>> /\ borders = <<1, 1, 1>>

\* C26: the title band of a section and the first key/value row of that
\* section are on the same physical page, whatever the height of the row:
\* when the first row is about to be drawn, the block drawn last is the
\* band and it is on the current page.
C26_BandWithFirstRow ==
    (prog = "review" /\ pc = "field_draw" /\ idx = 0) =>
        (block.kind = "band" /\ block.page = pages)

\* the page of the first drawing of the table header
FirstHeaderPage == CHOOSE p \in hdrPages : \A q \in hdrPages : p <= q

\* C27: with at least one line item, the first row is drawn on the page of
\* the first drawing of the table header (its ensure_space call starts no
\* page), and when the render has finished every page with a table header
\* has a line-item row.
C27_HeaderWithFirstRow ==
    /\ (pc = "row_draw" /\ idx = 0) =>
          (hdrPages # {} /\ FirstHeaderPage = pages /\ ~broke)
    /\ (pc = "done" /\ rowPages # {}) => hdrPages \subseteq rowPages

\* a finished render of generate_pdf: rows and headers on pages 1 and 2,
\* the rest of the document on page 3
C27_Witness ==
    /\ prog = "quote" /\ pc = "done" /\ pages = 3
    /\ hdrPages = {1, 2} /\ rowPages = {1, 2}

\* the step that lays out the logo block
LogoStep == pc = "start" /\ pc' # pc /\ prog \in {"quote", "review"}

\* C28: the logo block leaves the same layout whether or not the logo was
\* obtained: whatever the logo sources give, the slot is 16 mm high at the
\* top of page 1, the cursor moves down by the slot and the gap below it
\* (8 mm in generate_pdf, 6 mm in _build_review_pdf) and nothing else that
\* a later block reads is changed, so every later block is laid out alike.
C28_LayoutIgnoresLogo ==
    /\ [][LogoStep =>
            /\ block'.kind \in {"logo", "placeholder", "nologo"}
            /\ block'.page = 1 /\ block'.top = y /\ block'.h = 16 * mm
            /\ y' = y - 16 * mm - (IF prog = "quote" THEN 8 ELSE 6) * mm
            /\ UNCHANGED <<prog, pages, need, broke, log, footers, hdrPages,
                           rowPages, data, idx, sect, row_index, note_idx,
                           noteIters, drawn, rowVars, noteLog>>]_vars
    /\ [][(~LogoStep /\ block' # block) =>
            block'.kind \notin {"logo", "placeholder", "nologo"}]_vars

\* _build_review_pdf without a logo, the title about to be drawn 22 mm
\* below the top margin
C28_Witness ==
    /\ prog = "review" /\ pc = "title" /\ block.kind = "nologo"
    /\ y = TopOfPage - 22 * mm

\* C29: a render call never begins its layout before font resolution has
\* finished, i.e. before all four faces are registered or all four names
\* are the built-in ones, also when another call is inside _ensure_fonts.
C29_LayoutAfterFontResolution ==
    \A t \in Callers : caller[t].pc = "laid_out" => caller[t].resolved

\* C30: _inject_doc_type_line keeps every item it was given, unchanged and
\* in place, and appends at most one row; it appends one exactly when the
\* stripped document type is one of the two note types and no item given
\* has a note name as its description; a second call on its own result
\* changes nothing.
C30_InjectOnceIdempotent ==
    Len(history) >= 2 =>
        LET given == history[1]
            left == history[2]
            noted == \E k \in 1..Len(given) :
                        given[k].description
                           \in {" CONSIGNMENT NOTE ", "waste transfer note"}
            typed == docType \in {" Consignment Note ", "Waste Transfer Note"}
        IN  /\ Len(left) \in {Len(given), Len(given) + 1}
            /\ SubSeq(left, 1, Len(given)) = given
            /\ Len(left) = Len(given) + 1 <=> (typed /\ ~noted)
            /\ Len(left) = Len(given) + 1 =>
                  (left[Len(left)].fee /\ left[Len(left)].description
                      \in {"Consignment Note", "Waste Transfer Note"})
            /\ \A k \in 2..Len(history) : history[k] = left
            /\ lineItems = left

\* two calls on a list of two ordinary items with a note document type
\* written with spaces around it: the first call appended the fee row,
\* the second left the three items alone
C30_Witness ==
    /\ Len(history) = 3 /\ docType = " Consignment Note "
    /\ Len(history[1]) = 2 /\ Len(history[3]) = 3
    /\ history[3][3] = [description |-> "Consignment Note", fee |-> TRUE]

====
